---- MODULE Spec2Model ----
(***************************************************************************)
(* Photon-rate estimators of fretbursts/phtools/phrates.py:                *)
(*   - the sliding m-tuple functions (mtuple_delays, mtuple_delays_min,    *)
(*     mtuple_rates, mtuple_rates_t, mtuple_rates_max);                    *)
(*   - the self-evaluated Laplace KDE (_kde_laplace_self), modelled        *)
(*     statement by statement with its loop counter and its two window     *)
(*     pointers.                                                           *)
(*                                                                         *)
(* Representation.                                                         *)
(*   A one-dimensional numpy array is a run-length encoded sequence of     *)
(*   runs <<value, count>> (count >= 1, adjacent runs hold different       *)
(*   values), read by Size and At with the 0-based indices of the source.  *)
(*   The encoding lets the model hold the 2^15-element arrays that the     *)
(*   int16 photon counter needs.                                           *)
(*   A float64 is an exact rational <<num, den>> in lowest terms with      *)
(*   den > 0; <<1, 0>> is +inf, <<-1, 0>> is -inf and <<0, 0>> is nan.     *)
(*   A KDE rate, sum(exp(-delta_t / tau)), is kept as the multiset of its  *)
(*   terms: the set of pairs <<d, c>> saying that the distance d occurs    *)
(*   c times in delta_t.  A term's weight is 1 exactly when d = 0, and     *)
(*   0.0 (np.zeros) is the empty multiset.                                 *)
(***************************************************************************)
EXTENDS Integers, Sequences, FiniteSets

VARIABLES
    ph,        \* the timestamps array passed to the function
    fn,        \* the function called ("" before the call)
    m,         \* argument m of the m-tuple functions
    tau,       \* argument tau of _kde_laplace_self, a rational <<num, den>>
    pc,        \* position inside the called function
    i,         \* loop counter of _kde_laplace_self (-1 before the loop)
    t,         \* loop variable t = ph[i]
    ipos,      \* local ipos
    ineg,      \* local ineg
    ph_size,   \* local ph_size
    tau_lim,   \* local tau_lim, a rational <<num, den>>
    rates,     \* local rates
    nph,       \* local nph
    ret,       \* outcome of the call: [kind, val]
    call,      \* 1: call on the array given, 2: second call on its reflection
    rates0     \* rates returned by call 1

vars == <<ph, fn, m, tau, pc, i, t, ipos, ineg, ph_size, tau_lim,
          rates, nph, ret, call, rates0>>

(***************************************************************************)
(* Bounds of the model.                                                    *)
(***************************************************************************)
MaxN == 4
MaxT == 6
MaxNegM == 2

(***************************************************************************)
(* Program constants.                                                      *)
(***************************************************************************)
NphBits == 16
TauLimFactor == 5

Int16Max == 2^(NphBits - 1) - 1

(***************************************************************************)
(* Outcomes of a call.                                                     *)
(***************************************************************************)
\* kind is "int_array" or "float_array" (an ndarray and its dtype), "int" or
\* "float" (a scalar), "None", "tuple" (rates, nph), or the exception raised
Ok(kind, v) == [kind |-> kind, val |-> v]
Raise(e) == [kind |-> e, val |-> <<>>]
Pending == [kind |-> "pending", val |-> <<>>]
IsError(r) == r.kind \in {"ValueError", "IndexError"}
IsArray(r) == r.kind \in {"int_array", "float_array"}
IsScalar(r) == r.kind \in {"int", "float"}

Min2(a, b) == IF a <= b THEN a ELSE b
Max2(a, b) == IF a >= b THEN a ELSE b
Abs(x) == IF x < 0 THEN 0 - x ELSE x

(***************************************************************************)
(* numpy arrays, run-length encoded.                                       *)
(***************************************************************************)
RECURSIVE Size(_)
Size(a) == IF Len(a) = 0 THEN 0 ELSE a[1][2] + Size(Tail(a))

RECURSIVE At(_, _)
At(a, k) == IF k < a[1][2] THEN a[1][1] ELSE At(Tail(a), k - a[1][2])

Cat(a, b) ==
    IF Len(a) = 0 THEN b
    ELSE IF Len(b) = 0 THEN a
    ELSE IF a[Len(a)][1] = b[1][1]
         THEN SubSeq(a, 1, Len(a) - 1)
                \o << <<b[1][1], a[Len(a)][2] + b[1][2]>> >>
                \o Tail(b)
         ELSE a \o b

RECURSIVE Take(_, _)
Take(a, n) ==
    IF n <= 0 \/ Len(a) = 0 THEN <<>>
    ELSE IF a[1][2] <= n THEN <<a[1]>> \o Take(Tail(a), n - a[1][2])
    ELSE << <<a[1][1], n>> >>

RECURSIVE Drop(_, _)
Drop(a, n) ==
    IF n <= 0 \/ Len(a) = 0 THEN a
    ELSE IF a[1][2] <= n THEN Drop(Tail(a), n - a[1][2])
    ELSE << <<a[1][1], a[1][2] - n>> >> \o Tail(a)

\* np.zeros((n,)) with zero element z
Zeros(n, z) == IF n <= 0 THEN <<>> ELSE << <<z, n>> >>

\* a[k] = v for an index 0 <= k < a.size
SetAt(a, k, v) == Cat(Cat(Take(a, k), << <<v, 1>> >>), Drop(a, k + 1))

\* the array holding f[0], ..., f[n-1]
RECURSIVE ArrFrom(_, _, _)
ArrFrom(f, k, n) ==
    IF k >= n THEN <<>> ELSE Cat(<< <<f[k], 1>> >>, ArrFrom(f, k + 1, n))

Arr(f, n) == ArrFrom(f, 0, n)

\* a slice bound as Python resolves it: a negative bound counts from the
\* end, and the result is clipped to 0..n
PyBound(x, n) == IF x < 0 THEN Max2(x + n, 0) ELSE Min2(x, n)

\* a[start:stop]
PySlice(a, start, stop) ==
    LET n  == Size(a)
        lo == PyBound(start, n)
        hi == PyBound(stop, n)
    IN  IF hi <= lo THEN <<>> ELSE Take(Drop(a, lo), hi - lo)

\* a[start:]
SliceFrom(a, start) == PySlice(a, start, Size(a))

\* a[:stop]
SliceTo(a, stop) == PySlice(a, 0, stop)

\* the binary operations the m-tuple functions apply element by element
Apply(op, x, y) == IF op = "sub" THEN x - y ELSE x + y

\* a op b element by element under numpy's broadcasting of two
\* one-dimensional arrays: the sizes are equal or one of them is 1
Broadcast(op, a, b) ==
    LET na == Size(a)
        nb == Size(b)
    IN  IF na = nb
        THEN Ok("int_array", Arr([k \in 0..(na - 1) |-> Apply(op, At(a, k), At(b, k))], na))
        ELSE IF na = 1
        THEN Ok("int_array", Arr([k \in 0..(nb - 1) |-> Apply(op, At(a, 0), At(b, k))], nb))
        ELSE IF nb = 1
        THEN Ok("int_array", Arr([k \in 0..(na - 1) |-> Apply(op, At(a, k), At(b, 0))], na))
        ELSE Raise("ValueError")

(***************************************************************************)
(* float64 values as exact rationals.                                      *)
(***************************************************************************)
RECURSIVE Gcd(_, _)
Gcd(a, b) == IF b = 0 THEN a ELSE Gcd(b, a % b)

Sign(x) == IF x > 0 THEN 1 ELSE IF x < 0 THEN -1 ELSE 0

\* n / d under true division: x/0 is +-inf, 0/0 is nan
Rat(n, d) ==
    IF d = 0 THEN <<Sign(n), 0>>
    ELSE LET g == Gcd(Abs(n), Abs(d))
         IN  <<(Sign(d) * n) \div g, Abs(d) \div g>>

IsNan(x) == x = <<0, 0>>

\* x < y for x, y not nan
FLess(x, y) ==
    IF x[2] = 0 /\ y[2] = 0 THEN x[1] < y[1]
    ELSE IF x[2] = 0 THEN x[1] < 0
    ELSE IF y[2] = 0 THEN y[1] > 0
    ELSE x[1] * y[2] < y[1] * x[2]

\* n / a for every element of a
ScalarDiv(n, a) == Arr([k \in 0..(Size(a) - 1) |-> Rat(n, At(a, k))], Size(a))

\* 0.5 * a for every element of a
HalfOf(a) == Arr([k \in 0..(Size(a) - 1) |-> Rat(At(a, k), 2)], Size(a))

\* ndarray.min() of an integer array
ArrMin(a) ==
    IF Size(a) = 0 THEN Raise("ValueError")
    ELSE Ok("int",
            CHOOSE x \in {At(a, k) : k \in 0..(Size(a) - 1)} :
                \A k \in 0..(Size(a) - 1) : x <= At(a, k))

\* ndarray.max() of a float array: nan propagates
ArrMaxF(a) ==
    IF Size(a) = 0 THEN Raise("ValueError")
    ELSE IF \E k \in 0..(Size(a) - 1) : IsNan(At(a, k)) THEN Ok("float", <<0, 0>>)
    ELSE Ok("float",
            CHOOSE x \in {At(a, k) : k \in 0..(Size(a) - 1)} :
                \A k \in 0..(Size(a) - 1) : ~FLess(x, At(a, k)))

(***************************************************************************)
(* The m-tuple functions.                                                  *)
(***************************************************************************)
\* mutant of mtuple_delays: the first slice starts one element late, ph[m:]
mtuple_delays_late(a, mm) ==
    Broadcast("sub", SliceFrom(a, mm), SliceTo(a, Size(a) - mm + 1))

\* ph[m-1:] - ph[:ph.size-m+1]
mtuple_delays(a, mm) ==
    Broadcast("sub", SliceFrom(a, mm - 1), SliceTo(a, Size(a) - mm + 1))

\* mutant of mtuple_delays_min: the guard reads ph.size <= m
mtuple_delays_min_le(a, mm) ==
    IF Size(a) <= mm THEN Ok("None", <<>>)
    ELSE LET d == mtuple_delays(a, mm)
         IN  IF IsError(d) THEN d ELSE ArrMin(d.val)

mtuple_delays_min(a, mm) ==
    IF Size(a) < mm THEN Ok("None", <<>>)
    ELSE LET d == mtuple_delays(a, mm)
         IN  IF IsError(d) THEN d ELSE ArrMin(d.val)

\* mutant of mtuple_rates: the m - 1 intervals of the tuple are counted
mtuple_rates_intervals(a, mm) ==
    LET d == Broadcast("sub", SliceFrom(a, mm - 1), SliceTo(a, Size(a) - mm + 1))
    IN  IF IsError(d) THEN d ELSE Ok("float_array", ScalarDiv(mm - 1, d.val))

\* m/(ph[m-1:] - ph[:ph.size-m+1])
mtuple_rates(a, mm) ==
    LET d == Broadcast("sub", SliceFrom(a, mm - 1), SliceTo(a, Size(a) - mm + 1))
    IN  IF IsError(d) THEN d ELSE Ok("float_array", ScalarDiv(mm, d.val))

\* 0.5*(ph[m-1:] + ph[:ph.size-m+1])
mtuple_rates_t(a, mm) ==
    LET s == Broadcast("add", SliceFrom(a, mm - 1), SliceTo(a, Size(a) - mm + 1))
    IN  IF IsError(s) THEN s ELSE Ok("float_array", HalfOf(s.val))

mtuple_rates_max(a, mm) ==
    IF Size(a) < mm THEN Ok("None", <<>>)
    ELSE LET r == mtuple_rates(a, mm)
         IN  IF IsError(r) THEN r ELSE ArrMaxF(r.val)

(***************************************************************************)
(* _kde_laplace_self.                                                      *)
(***************************************************************************)
\* x < q and x > q for an integer x and a rational q
IntLess(x, q) == x * q[2] < q[1]
IntGreater(x, q) == x * q[2] > q[1]

\* a[k] is a valid read: Python accepts the indices -a.size .. a.size-1
ValidIndex(a, k) == 0 - Size(a) <= k /\ k < Size(a)

\* a[k]
PyAt(a, k) == IF k < 0 THEN At(a, k + Size(a)) ELSE At(a, k)

\* the value stored by `x[k] = v` in an array of dtype int16: the Python
\* integer is cast to 16 bits, two's complement
Int16(v) == ((v + 2^(NphBits - 1)) % 2^NphBits) - 2^(NphBits - 1)

\* np.abs(a - x)
RECURSIVE AbsDiff(_, _)
AbsDiff(a, x) ==
    IF Len(a) = 0 THEN <<>>
    ELSE Cat(<< <<Abs(a[1][1] - x), a[1][2]>> >>, AbsDiff(Tail(a), x))

\* how many elements of d equal x
RECURSIVE CountOf(_, _)
CountOf(d, x) ==
    IF Len(d) = 0 THEN 0
    ELSE (IF d[1][1] = x THEN d[1][2] ELSE 0) + CountOf(Tail(d), x)

\* np.exp(-d / tau).sum(): the multiset of the terms' distances
ExpSum(d) == { <<d[k][1], CountOf(d, d[k][1])>> : k \in 1..Len(d) }

\* mutant of PosGuard: the first while loop does not test ipos < ph_size
PosGuard_unbounded == TRUE

\* line 180, left operand: ipos < ph_size
PosGuard == ipos < ph_size

\* line 180, right operand: ph[ipos] - t < tau_lim
PosTest == IntLess(PyAt(ph, ipos) - t, tau_lim)

\* line 185: t - ph[ineg] > tau_lim
NegTest == IntGreater(t - PyAt(ph, ineg), tau_lim)

\* mutant of DeltaT: ipos is taken for the last index inside the window
DeltaT_inclusive == AbsDiff(PySlice(ph, ineg, ipos - 1), t)

\* line 188: np.abs(ph[ineg:ipos] - t)
DeltaT == AbsDiff(PySlice(ph, ineg, ipos), t)

\* lines 172-176: the locals before the loop
Prologue(a, tt) ==
    /\ tau' = tt
    /\ ph_size' = Size(a)
    /\ ipos' = 0
    /\ ineg' = 0
    /\ rates' = Zeros(Size(a), {})
    /\ nph' = Zeros(Size(a), 0)
    /\ tau_lim' = <<TauLimFactor * tt[1], tt[2]>>
    /\ i' = -1
    /\ t' = 0
    /\ ret' = Pending
    /\ pc' = "for"

\* the call _kde_laplace_self(ph, tau) with tau drawn from taus
kde_laplace_self(taus) ==
    /\ pc = "idle"
    /\ \E tt \in taus : Prologue(ph, tt)
    /\ fn' = "_kde_laplace_self"
    /\ UNCHANGED <<ph, m, call, rates0>>

\* line 177: the next element of enumerate(ph), or line 191: the return
for_loop ==
    /\ pc = "for"
    /\ IF i + 1 < ph_size
       THEN /\ i' = i + 1
            /\ t' = At(ph, i + 1)
            /\ pc' = "while_pos"
            /\ UNCHANGED ret
       ELSE /\ ret' = Ok("tuple", <<rates, nph>>)
            /\ pc' = "done"
            /\ UNCHANGED <<i, t>>
    /\ UNCHANGED <<ph, fn, m, tau, ipos, ineg, ph_size, tau_lim, rates, nph,
                   call, rates0>>

\* lines 180-181: one evaluation of the first while condition
while_pos ==
    /\ pc = "while_pos"
    /\ IF ~PosGuard
       THEN pc' = "while_neg" /\ UNCHANGED <<ipos, ret>>
       ELSE IF ~ValidIndex(ph, ipos)
       THEN ret' = Raise("IndexError") /\ pc' = "done" /\ UNCHANGED ipos
       ELSE IF PosTest
       THEN ipos' = ipos + 1 /\ UNCHANGED <<pc, ret>>
       ELSE pc' = "while_neg" /\ UNCHANGED <<ipos, ret>>
    /\ UNCHANGED <<ph, fn, m, tau, i, t, ineg, ph_size, tau_lim, rates, nph,
                   call, rates0>>

\* lines 185-186: one evaluation of the second while condition
while_neg ==
    /\ pc = "while_neg"
    /\ IF ~ValidIndex(ph, ineg)
       THEN ret' = Raise("IndexError") /\ pc' = "done" /\ UNCHANGED ineg
       ELSE IF NegTest
       THEN ineg' = ineg + 1 /\ UNCHANGED <<pc, ret>>
       ELSE pc' = "body" /\ UNCHANGED <<ineg, ret>>
    /\ UNCHANGED <<ph, fn, m, tau, i, t, ipos, ph_size, tau_lim, rates, nph,
                   call, rates0>>

\* lines 188-190
body ==
    /\ pc = "body"
    /\ rates' = SetAt(rates, i, ExpSum(DeltaT))
    /\ nph' = SetAt(nph, i, Int16(ipos - ineg))
    /\ pc' = "for"
    /\ UNCHANGED <<ph, fn, m, tau, i, t, ipos, ineg, ph_size, tau_lim, ret,
                   call, rates0>>

\* ph'[k] = c - ph[N-1-k]
RECURSIVE Reflect(_, _)
Reflect(a, c) ==
    IF Len(a) = 0 THEN <<>>
    ELSE Cat(Reflect(Tail(a), c), << <<c - a[1][1], a[1][2]>> >>)

\* after a normal return, the caller evaluates the time-reversed stream
\* with the same tau
CallReflected ==
    /\ pc = "done"
    /\ fn = "_kde_laplace_self"
    /\ call = 1
    /\ ret.kind = "tuple"
    /\ ph' = Reflect(ph, MaxT)
    /\ Prologue(Reflect(ph, MaxT), tau)
    /\ rates0' = rates
    /\ call' = 2
    /\ UNCHANGED <<fn, m>>

(***************************************************************************)
(* Calls of the m-tuple functions.                                         *)
(***************************************************************************)
MVals == (0 - MaxNegM)..(MaxN + 1)

\* the variables a call of an m-tuple function leaves alone
KdeLocals == <<tau, i, t, ipos, ineg, ph_size, tau_lim, rates, nph, call, rates0>>

Call_mtuple_delays ==
    /\ pc = "idle"
    /\ \E mm \in MVals : m' = mm /\ ret' = mtuple_delays(ph, mm)
    /\ fn' = "mtuple_delays"
    /\ pc' = "done"
    /\ UNCHANGED <<ph, KdeLocals>>

Call_mtuple_delays_min ==
    /\ pc = "idle"
    /\ \E mm \in MVals : m' = mm /\ ret' = mtuple_delays_min(ph, mm)
    /\ fn' = "mtuple_delays_min"
    /\ pc' = "done"
    /\ UNCHANGED <<ph, KdeLocals>>

Call_mtuple_rates ==
    /\ pc = "idle"
    /\ \E mm \in MVals : m' = mm /\ ret' = mtuple_rates(ph, mm)
    /\ fn' = "mtuple_rates"
    /\ pc' = "done"
    /\ UNCHANGED <<ph, KdeLocals>>

Call_mtuple_rates_t ==
    /\ pc = "idle"
    /\ \E mm \in MVals : m' = mm /\ ret' = mtuple_rates_t(ph, mm)
    /\ fn' = "mtuple_rates_t"
    /\ pc' = "done"
    /\ UNCHANGED <<ph, KdeLocals>>

Call_mtuple_rates_max ==
    /\ pc = "idle"
    /\ \E mm \in MVals : m' = mm /\ ret' = mtuple_rates_max(ph, mm)
    /\ fn' = "mtuple_rates_max"
    /\ pc' = "done"
    /\ UNCHANGED <<ph, KdeLocals>>

(***************************************************************************)
(* Inputs and specifications.                                              *)
(***************************************************************************)
\* the sorted (non-decreasing) timestamp arrays of at most MaxN elements
SortedArrays ==
    UNION { { Arr(f, n) : f \in { g \in [0..(n - 1) -> 0..MaxT] :
                                    \A k \in 0..(n - 2) : g[k] <= g[k + 1] } } :
            n \in 0..MaxN }

TauVals == { <<-1, 1>>, <<0, 1>>, <<1, 5>>, <<2, 5>>, <<1, 1>> }

\* dense streams: as many photons as an int16 holds, one more, and a
\* long stream of two well separated bursts
BigArrays ==
    { Zeros(Int16Max, 0), Zeros(Int16Max + 1, 0),
      << <<0, Int16Max>>, <<100, Int16Max>> >> }

BigTauVals == { <<1, 1>> }

Start(arrays) ==
    /\ ph \in arrays
    /\ fn = ""
    /\ m = 0
    /\ tau = <<0, 1>>
    /\ pc = "idle"
    /\ i = -1
    /\ t = 0
    /\ ipos = 0
    /\ ineg = 0
    /\ ph_size = 0
    /\ tau_lim = <<0, 1>>
    /\ rates = <<>>
    /\ nph = <<>>
    /\ ret = Pending
    /\ call = 1
    /\ rates0 = <<>>

Init == Start(SortedArrays)

InitBig == Start(BigArrays)

Scan == for_loop \/ while_pos \/ while_neg \/ body

Next ==
    \/ Call_mtuple_delays
    \/ Call_mtuple_delays_min
    \/ Call_mtuple_rates
    \/ Call_mtuple_rates_t
    \/ Call_mtuple_rates_max
    \/ kde_laplace_self(TauVals)
    \/ Scan
    \/ CallReflected

NextBig == kde_laplace_self(BigTauVals) \/ Scan

Spec == Init /\ [][Next]_vars

SpecBig == InitBig /\ [][NextBig]_vars

(***************************************************************************)
(* Vocabulary of the properties.                                           *)
(***************************************************************************)
InKde == fn = "_kde_laplace_self"
TauPositive == tau[1] > 0
InLoop == pc \in {"while_pos", "while_neg", "body"}
Returned == pc = "done" /\ ret.kind = "tuple"

\* the number of leading entries of rates and nph already assigned
Written == IF pc = "for" \/ Returned THEN i + 1 ELSE i

\* |ph[j] - ph[k]| <= 5*tau
Within(j, k) == Abs(At(ph, j) - At(ph, k)) * tau[2] <= 5 * tau[1]

\* the all-pairs count of the timestamps within 5*tau of ph[k]
BruteCount(k) == Cardinality({ j \in 0..(Size(ph) - 1) : Within(j, k) })

\* x * d as float64 multiplies a float by an integer: inf * 0 is nan
FTimesInt(x, d) ==
    IF x[2] = 0 THEN (IF d = 0 THEN <<0, 0>> ELSE <<x[1] * Sign(d), 0>>)
    ELSE Rat(x[1] * d, x[2])

\* the float x equals the integer n
FEqInt(x, n) == x[2] # 0 /\ x[1] = n * x[2]

MtupleArrayFns == {"mtuple_delays", "mtuple_rates", "mtuple_rates_t"}
MtupleFns == MtupleArrayFns \cup {"mtuple_delays_min", "mtuple_rates_max"}

(***************************************************************************)
(* C1.  For tau > 0, nph[k] is the exact number of timestamps j with       *)
(* |ph[j] - ph[k]| <= 5*tau, and the window [ineg, ipos) used for rates[i] *)
(* holds exactly the timestamps within that radius of ph[i].               *)
(* The code refutes it: a timestamp exactly 5*tau after ph[i] is left out  *)
(* of the window while one exactly 5*tau before it is kept.                *)
(***************************************************************************)
C1_WindowCountExact ==
    (InKde /\ TauPositive) =>
        /\ \A k \in 0..(Written - 1) : At(nph, k) = BruteCount(k)
        /\ pc = "body" =>
              \A j \in 0..(Size(ph) - 1) : (ineg <= j /\ j < ipos) <=> Within(j, i)

(***************************************************************************)
(* C2.  For m >= 1 and N >= m, mtuple_delays, mtuple_rates and             *)
(* mtuple_rates_t return arrays of exactly N-m+1 elements, with            *)
(* delays[k] = ph[k+m-1] - ph[k] and time[k] = 0.5*(ph[k] + ph[k+m-1]).    *)
(***************************************************************************)
C2_MtupleShapes ==
    (pc = "done" /\ fn \in MtupleArrayFns /\ m >= 1 /\ Size(ph) >= m) =>
        /\ IsArray(ret)
        /\ Size(ret.val) = Size(ph) - m + 1
        /\ fn = "mtuple_delays" =>
              \A k \in 0..(Size(ph) - m) :
                  At(ret.val, k) = At(ph, k + m - 1) - At(ph, k)
        /\ fn = "mtuple_rates_t" =>
              \A k \in 0..(Size(ph) - m) :
                  /\ At(ret.val, k)[2] # 0
                  /\ 2 * At(ret.val, k)[1]
                       = (At(ph, k) + At(ph, k + m - 1)) * At(ret.val, k)[2]

C2_Witness ==
    /\ pc = "done"
    /\ fn = "mtuple_rates_t"
    /\ m = 2
    /\ Size(ph) = 3
    /\ ret.kind = "float_array"
    /\ At(ret.val, 0) # At(ret.val, 1)

(***************************************************************************)
(* C3.  As claimed: for m >= 1 and N >= m, rates[k] * delays[k] = m for    *)
(* every k, duplicates allowed.  A zero delay refutes it.                  *)
(***************************************************************************)
C3_RateTimesDelay ==
    (pc = "done" /\ fn = "mtuple_rates" /\ m >= 1 /\ Size(ph) >= m) =>
        /\ ret.kind = "float_array"
        /\ \A k \in 0..(Size(ph) - m) :
              FEqInt(FTimesInt(At(ret.val, k), At(mtuple_delays(ph, m).val, k)), m)

(***************************************************************************)
(* C3, amended.  For m >= 1 and N >= m: where delays[k] # 0, rates[k] is   *)
(* the quotient m / delays[k], so that rates[k] * delays[k] = m; where     *)
(* delays[k] = 0, rates[k] is +inf and rates[k] * delays[k] is nan.        *)
(***************************************************************************)
C3_RateTimesDelayNonzero ==
    (pc = "done" /\ fn = "mtuple_rates" /\ m >= 1 /\ Size(ph) >= m) =>
        /\ ret.kind = "float_array"
        /\ \A k \in 0..(Size(ph) - m) :
              LET d == At(mtuple_delays(ph, m).val, k)
                  r == At(ret.val, k)
              IN  IF d # 0
                  THEN FEqInt(FTimesInt(r, d), m)
                  ELSE r = <<1, 0>> /\ IsNan(FTimesInt(r, d))

C3_Witness ==
    /\ pc = "done"
    /\ fn = "mtuple_rates"
    /\ m = 2
    /\ Size(ph) = 3
    /\ ret.kind = "float_array"
    /\ At(ret.val, 0) = <<1, 0>>
    /\ At(ret.val, 1) = <<2, 3>>

(***************************************************************************)
(* The value returned by a reduction is the least delay, respectively the  *)
(* greatest rate, of the array the same arguments give.                    *)
(***************************************************************************)
IsMinOf(x, a) ==
    /\ \E k \in 0..(Size(a) - 1) : At(a, k) = x
    /\ \A k \in 0..(Size(a) - 1) : x <= At(a, k)

IsMaxOf(x, a) ==
    /\ \E k \in 0..(Size(a) - 1) : At(a, k) = x
    /\ \A k \in 0..(Size(a) - 1) : ~FLess(x, At(a, k))

ReductionOfArray ==
    /\ IsScalar(ret)
    /\ fn = "mtuple_delays_min" =>
          /\ mtuple_delays(ph, m).kind = "int_array"
          /\ IsMinOf(ret.val, mtuple_delays(ph, m).val)
    /\ fn = "mtuple_rates_max" =>
          /\ mtuple_rates(ph, m).kind = "float_array"
          /\ IsMaxOf(ret.val, mtuple_rates(ph, m).val)

(***************************************************************************)
(* C4.  As claimed: for every m, mtuple_delays_min and mtuple_rates_max    *)
(* return None when ph.size < m, and otherwise the minimum of the delays,  *)
(* respectively the maximum of the rates.  m < 1 refutes the second half.  *)
(***************************************************************************)
C4_ReductionsAnyM ==
    (pc = "done" /\ fn \in {"mtuple_delays_min", "mtuple_rates_max"}) =>
        IF Size(ph) < m THEN ret.kind = "None" ELSE ReductionOfArray

(***************************************************************************)
(* C4, amended.  mtuple_delays_min and mtuple_rates_max return None when   *)
(* ph.size < m; when ph.size >= m >= 1 they return the minimum of the      *)
(* delays array, respectively the maximum of the rates array, never None.  *)
(***************************************************************************)
C4_Reductions ==
    (pc = "done" /\ fn \in {"mtuple_delays_min", "mtuple_rates_max"}) =>
        /\ Size(ph) < m => ret.kind = "None"
        /\ (Size(ph) >= m /\ m >= 1) => ReductionOfArray

C4_Witness ==
    /\ pc = "done"
    /\ fn = "mtuple_rates_max"
    /\ m = 2
    /\ Size(ph) = 3
    /\ ret.kind = "float"
    /\ ret.val = <<2, 1>>

(***************************************************************************)
(* C5.  Time reversal: for tau > 0 the rates of the reflected array        *)
(* ph'[k] = C - ph[N-1-k] are the rates of ph in reverse order.            *)
(* The code refutes it, by the one-sided window edge of C1.                *)
(***************************************************************************)
C5_TimeReversal ==
    (InKde /\ TauPositive /\ call = 2 /\ Returned) =>
        \A k \in 0..(Size(ph) - 1) :
            At(rates, k) = At(rates0, Size(ph) - 1 - k)

(***************************************************************************)
(* C6.  With tau <= 0 the call is rejected before the scan: the loop is    *)
(* never entered, ineg and ipos never advance, no read of ph is out of     *)
(* bounds and no (rates, nph) is returned.  The code has no such check.    *)
(***************************************************************************)
C6_RejectsNonPositiveTau ==
    (InKde /\ ~TauPositive) =>
        /\ ~InLoop
        /\ ipos = 0
        /\ ineg = 0
        /\ ret.kind \notin {"tuple", "IndexError"}

(***************************************************************************)
(* C7.  With m < 1 the m-tuple functions reject the call and never return  *)
(* an array or a reduction value.  The code has no such check.             *)
(***************************************************************************)
C7_RejectsInvalidM ==
    (pc = "done" /\ fn \in MtupleFns /\ m < 1) =>
        ~IsArray(ret) /\ ~IsScalar(ret)

(***************************************************************************)
(* C8.  Once a window population ipos - ineg above 32767 has been stored   *)
(* in nph[i], the call is in error: it neither goes on nor returns.        *)
(* The code stores the population cast to int16 and goes on.               *)
(***************************************************************************)
C8_OverflowReported ==
    (InKde /\ i >= 0 /\ pc \in {"for", "done"} /\ ipos - ineg > Int16Max) =>
        IsError(ret)

(***************************************************************************)
(* C9.  For tau > 0: with N = 0 the call returns two empty arrays without  *)
(* error and without reading ph; with N = 1 it returns nph = [1] and       *)
(* rates = [K(0; tau)], the single term of distance 0, which is 1.         *)
(***************************************************************************)
C9_Boundary ==
    (InKde /\ TauPositive) =>
        /\ Size(ph) = 0 =>
              /\ ~InLoop
              /\ pc = "done" => ret = Ok("tuple", << <<>>, <<>> >>)
        /\ (Size(ph) = 1 /\ pc = "done") =>
              ret = Ok("tuple", << << <<{<<0, 1>>}, 1>> >>, << <<1, 1>> >> >>)

C9_Witness ==
    /\ InKde
    /\ TauPositive
    /\ Size(ph) = 1
    /\ Returned
    /\ At(ret.val[2], 0) = 1

(***************************************************************************)
(* The two halves of C10: the bounds on the pointers in a state of the     *)
(* scan, and the step of a call that never moves a pointer back.           *)
(***************************************************************************)
C10_Pointers ==
    (InKde /\ TauPositive) =>
        /\ ret.kind # "IndexError"
        /\ (InLoop \/ (pc = "for" /\ i >= 0)) =>
              0 <= ineg /\ ineg <= i /\ i <= ipos /\ ipos <= Size(ph)
        /\ (pc = "while_pos" /\ PosGuard) => (0 <= ipos /\ ipos <= Size(ph) - 1)
        /\ pc = "while_neg" => (0 <= ineg /\ ineg <= Size(ph) - 1)
        /\ pc = "body" => (ineg <= i /\ ipos >= i + 1)

C10_Monotone ==
    (InKde /\ TauPositive /\ call' = call) => (ineg' >= ineg /\ ipos' >= ipos)

(***************************************************************************)
(* C10.  Two-pointer invariant, for tau > 0: in every state of the loop    *)
(* 0 <= ineg <= i <= ipos <= N; every read of ph[ineg] and ph[ipos] is in  *)
(* 0..N-1; when rates[i] and nph[i] are computed ineg <= i and             *)
(* ipos >= i+1; and within a call neither pointer ever decreases.          *)
(***************************************************************************)
C10_TwoPointer == [](C10_Pointers) /\ [][C10_Monotone]_vars

C10_Witness ==
    /\ InKde
    /\ TauPositive
    /\ pc = "body"
    /\ ineg > 0
    /\ ipos < Size(ph)
    /\ ipos > i + 1

====
